---- MODULE Spec2Model ----
(***************************************************************************)
(* Telemetry decoding and stabilisation of the Eufy RoboVac S1 Pro         *)
(* integration (custom_components/eufy_robovac_s1_pro/sensor.py):          *)
(*   - decode_varint, the base-128 varint decoder;                         *)
(*   - parse_dps167_statistics, the DPS 167 statistics blob parser, with   *)
(*     the base64 envelope it removes;                                     *)
(*   - TotalCleaningCountSensor / TotalCleaningAreaSensor, the sensors     *)
(*     that keep the last valid value of each cumulative counter.          *)
(* Three specifications share the module: Spec (the sensors under polls),  *)
(* ParseSpec (the parser on bounded inputs) and VarintSpec (the decoder).  *)
(***************************************************************************)
EXTENDS Integers, Sequences, FiniteSets

VARIABLES
    coordinator_data,    \* coordinator.data: the snapshot of the last poll
    _last_valid_count,   \* TotalCleaningCountSensor._last_valid_count
    _last_valid_area,    \* TotalCleaningAreaSensor._last_valid_area
    count_value,         \* what TotalCleaningCountSensor.native_value last returned
    area_value,          \* what TotalCleaningAreaSensor.native_value last returned
    last_op,             \* the operation that ran last
    seen,                \* sensors read since the last poll
    reads,               \* reads of each statistics sensor since the last poll (capped)
    battery_value,       \* StatusSpec: outcome of BatteryPercentageSensor.native_value
    running_value,       \* StatusSpec: outcome of RunningStatusSensor.native_value
    cloud_devices,       \* SetupSpec: the devices the cloud lists, home by home
    manual_devices,      \* SetupSpec: entry.data[CONF_MANUAL_DEVICES], device id to config
    discover_result,     \* SetupSpec: what discover() returned, device id to address
    detected_devices,    \* SetupSpec: the local detected_devices, entries popped as used
    refresh_raises,      \* SetupSpec: per device, what its first refresh raises ("ok": nothing)
    forward_api,         \* SetupSpec: "new" | "old" (no async_forward_entry_setups)
    todo,                \* SetupSpec: devices the setup loop has not reached yet
    registered,          \* SetupSpec: hass.data[DOMAIN][entry_id][CONF_DISCOVERED_DEVICES]
    forwarded,           \* SetupSpec: platforms the entry was forwarded to
    platform_todo,       \* SetupSpec: registered devices the sensor platform has not reached
    entities,            \* SetupSpec: the list `devices` of sensor.async_setup_entry
    added,               \* SetupSpec: the entities given to async_add_devices
    setup_log,           \* SetupSpec: what was logged (cloud error, devices warned about)
    setup_pc,            \* SetupSpec: position in async_setup_entry
    setup_result,        \* SetupSpec: "pending" | "true" (returned True) | "raised"
    p_input,             \* ParseSpec: the argument of parse_dps167_statistics
    p_result,            \* ParseSpec: the outcome of the call
    p_pc,                \* ParseSpec: "ready" | "done"
    v_data,              \* VarintSpec: the byte sequence
    v_values,            \* VarintSpec: the integers v_data encodes (<<>> for raw bytes)
    v_start,             \* VarintSpec: start position of the next / last call
    v_result,            \* VarintSpec: outcome of the last decode_varint call
    v_decoded,           \* VarintSpec: values decoded so far, in order
    v_pc                 \* VarintSpec: "encoded" | "raw_ready" | "raw_called"

sensorVars == <<coordinator_data, _last_valid_count, _last_valid_area,
                count_value, area_value, last_op, seen, reads>>
statusVars == <<battery_value, running_value>>
setupVars == <<cloud_devices, manual_devices, discover_result, detected_devices,
               refresh_raises, forward_api, todo, registered, forwarded,
               platform_todo, entities, added, setup_log, setup_pc, setup_result>>
parseVars == <<p_input, p_result, p_pc>>
varintVars == <<v_data, v_values, v_start, v_result, v_decoded, v_pc>>
vars == <<sensorVars, parseVars, varintVars, statusVars, setupVars>>

----------------------------------------------------------------------------
(* Python values *)

\* Python's None; every integer the program handles is >= 0.
None == -1

\* Python int operators on non-negative integers.
RECURSIVE BitAnd(_, _)
BitAnd(a, b) ==
    IF a = 0 \/ b = 0 THEN 0
    ELSE (a % 2) * (b % 2) + 2 * BitAnd(a \div 2, b \div 2)

RECURSIVE BitOr(_, _)
BitOr(a, b) ==
    IF a = 0 THEN b
    ELSE IF b = 0 THEN a
    ELSE (IF a % 2 = 1 \/ b % 2 = 1 THEN 1 ELSE 0) + 2 * BitOr(a \div 2, b \div 2)

RECURSIVE Shl(_, _)
Shl(a, n) == IF n = 0 THEN a ELSE Shl(2 * a, n - 1)

Min(a, b) == IF a <= b THEN a ELSE b

\* data[i] for a 0-based index 0 <= i < len(data).
At(data, i) == data[i + 1]

\* data[-k], Python's index from the end (1 <= k <= len(data)).
FromEnd(data, k) == data[Len(data) - k + 1]

----------------------------------------------------------------------------
(* decode_varint *)

\* One pass of the while loop: pos, value and shift are the loop's variables.
RECURSIVE varint_loop(_, _, _, _)
varint_loop(data, pos, value, shift) ==
    IF ~(pos < Len(data)) THEN [raised |-> FALSE, value |-> value, pos |-> pos]
    ELSE LET byte == At(data, pos)
             v == BitOr(value, Shl(BitAnd(byte, 127), shift))
         IN  IF BitAnd(byte, 128) = 0
             THEN [raised |-> FALSE, value |-> v, pos |-> pos + 1]
             ELSE varint_loop(data, pos + 1, v, shift + 7)

\* A plausible slip: the loop bound written <=, so data[len(data)] is read and
\* raises IndexError.
RECURSIVE varint_loop_overrun(_, _, _, _)
varint_loop_overrun(data, pos, value, shift) ==
    IF ~(pos <= Len(data)) THEN [raised |-> FALSE, value |-> value, pos |-> pos]
    ELSE IF pos = Len(data) THEN [raised |-> TRUE, value |-> value, pos |-> pos]
    ELSE LET byte == At(data, pos)
             v == BitOr(value, Shl(BitAnd(byte, 127), shift))
         IN  IF BitAnd(byte, 128) = 0
             THEN [raised |-> FALSE, value |-> v, pos |-> pos + 1]
             ELSE varint_loop_overrun(data, pos + 1, v, shift + 7)

decode_varint_overrun(data, start_pos) == varint_loop_overrun(data, start_pos, 0, 0)

\* A plausible slip: groups shifted by 8 bits instead of 7.
RECURSIVE varint_loop_shift8(_, _, _, _)
varint_loop_shift8(data, pos, value, shift) ==
    IF ~(pos < Len(data)) THEN [raised |-> FALSE, value |-> value, pos |-> pos]
    ELSE LET byte == At(data, pos)
             v == BitOr(value, Shl(BitAnd(byte, 127), shift))
         IN  IF BitAnd(byte, 128) = 0
             THEN [raised |-> FALSE, value |-> v, pos |-> pos + 1]
             ELSE varint_loop_shift8(data, pos + 1, v, shift + 8)

decode_varint_shift8(data, start_pos) == varint_loop_shift8(data, start_pos, 0, 0)

\* decode_varint(data, start_pos) -> (value, pos); raised: an exception escaped.
decode_varint(data, start_pos) == varint_loop(data, start_pos, 0, 0)

----------------------------------------------------------------------------
(* base64: the text envelope of the DPS 167 blob.  A character is modelled  *)
(* by its class: 0..63 the alphabet character of that value, B64_PAD '=',  *)
(* B64_JUNK any other ASCII character, NON_ASCII any non-ASCII character.  *)

B64_PAD == 64
B64_JUNK == 65
NON_ASCII == 66

\* A DP value: a text (its characters), or a value of another type (an int n).
Str(chars) == [type |-> "str", chars |-> chars, n |-> 0]
IntValue(n) == [type |-> "int", chars |-> <<>>, n |-> n]

\* Python truthiness of a DP value.
Truthy(v) == IF v.type = "str" THEN v.chars # <<>> ELSE v.n # 0

\* The device's encoder: three bytes to four characters, '=' padding.
RECURSIVE b64encode(_)
b64encode(bytes) ==
    IF Len(bytes) = 0 THEN <<>>
    ELSE IF Len(bytes) = 1
    THEN <<bytes[1] \div 4, (bytes[1] % 4) * 16, B64_PAD, B64_PAD>>
    ELSE IF Len(bytes) = 2
    THEN <<bytes[1] \div 4, (bytes[1] % 4) * 16 + bytes[2] \div 16,
           (bytes[2] % 16) * 4, B64_PAD>>
    ELSE <<bytes[1] \div 4, (bytes[1] % 4) * 16 + bytes[2] \div 16,
           (bytes[2] % 16) * 4 + bytes[3] \div 64, bytes[3] % 64>>
         \o b64encode(SubSeq(bytes, 4, Len(bytes)))

\* binascii.a2b_base64 (non-strict): junk is skipped, a pad sequence that
\* completes a quad ends the parse, leftover data characters are an error.
RECURSIVE a2b_base64(_, _, _, _, _, _)
a2b_base64(chars, i, quad_pos, leftchar, pads, out) ==
    IF i > Len(chars)
    THEN IF quad_pos # 0
         THEN [ok |-> FALSE, exc |-> "binascii.Error", bytes |-> out]
         ELSE [ok |-> TRUE, exc |-> "", bytes |-> out]
    ELSE LET ch == chars[i] IN
         IF ch = B64_PAD
         THEN IF quad_pos >= 2 /\ quad_pos + pads + 1 >= 4
              THEN [ok |-> TRUE, exc |-> "", bytes |-> out]
              ELSE a2b_base64(chars, i + 1, quad_pos, leftchar,
                              IF quad_pos >= 2 THEN pads + 1 ELSE pads, out)
         ELSE IF ch >= 64
         THEN a2b_base64(chars, i + 1, quad_pos, leftchar, pads, out)
         ELSE IF quad_pos = 0
         THEN a2b_base64(chars, i + 1, 1, ch, 0, out)
         ELSE IF quad_pos = 1
         THEN a2b_base64(chars, i + 1, 2, ch % 16, 0,
                         Append(out, leftchar * 4 + ch \div 16))
         ELSE IF quad_pos = 2
         THEN a2b_base64(chars, i + 1, 3, ch % 4, 0,
                         Append(out, leftchar * 16 + ch \div 4))
         ELSE a2b_base64(chars, i + 1, 0, 0, 0,
                         Append(out, leftchar * 64 + ch))

\* base64.b64decode(value): TypeError for a non-text, ValueError for non-ASCII
\* text, binascii.Error (a ValueError) for bad padding.
b64decode(value) ==
    IF value.type # "str"
    THEN [ok |-> FALSE, exc |-> "TypeError", bytes |-> <<>>]
    ELSE IF \E i \in 1..Len(value.chars) : value.chars[i] = NON_ASCII
    THEN [ok |-> FALSE, exc |-> "ValueError", bytes |-> <<>>]
    ELSE a2b_base64(value.chars, 1, 0, 0, 0, <<>>)

----------------------------------------------------------------------------
(* parse_dps167_statistics *)

TAG_0x18 == 24

\* stats as initialised: every key present, every value None.
empty_stats == [total_count |-> None, total_area |-> None, total_time_mins |-> None]

\* A plausible slip: the 2-byte position tested before the 1-byte position.
total_count_wrong_order(data) ==
    IF Len(data) >= 3 /\ FromEnd(data, 3) = TAG_0x18
    THEN LET byte1 == FromEnd(data, 2)
             byte2 == FromEnd(data, 1)
         IN  IF BitAnd(byte1, 128) # 0
             THEN BitAnd(byte1, 127) + Shl(byte2, 7)
             ELSE byte1
    ELSE IF Len(data) >= 2 /\ FromEnd(data, 2) = TAG_0x18
    THEN FromEnd(data, 1)
    ELSE IF Len(data) >= 4 /\ FromEnd(data, 4) = TAG_0x18
    THEN LET byte1 == FromEnd(data, 3)
             byte2 == FromEnd(data, 2)
             byte3 == FromEnd(data, 1)
         IN  IF BitAnd(byte1, 128) # 0 /\ BitAnd(byte2, 128) # 0
             THEN BitAnd(byte1, 127) + Shl(BitAnd(byte2, 127), 7) + Shl(byte3, 14)
             ELSE IF BitAnd(byte1, 128) # 0
             THEN BitAnd(byte1, 127) + Shl(byte2, 7)
             ELSE byte1
    ELSE None

\* stats["total_count"] after the if/elif/elif chain on the tag 0x18.
total_count(data) ==
    IF Len(data) >= 2 /\ FromEnd(data, 2) = TAG_0x18
    THEN FromEnd(data, 1)
    ELSE IF Len(data) >= 3 /\ FromEnd(data, 3) = TAG_0x18
    THEN LET byte1 == FromEnd(data, 2)
             byte2 == FromEnd(data, 1)
         IN  IF BitAnd(byte1, 128) # 0
             THEN BitAnd(byte1, 127) + Shl(byte2, 7)
             ELSE byte1
    ELSE IF Len(data) >= 4 /\ FromEnd(data, 4) = TAG_0x18
    THEN LET byte1 == FromEnd(data, 3)
             byte2 == FromEnd(data, 2)
             byte3 == FromEnd(data, 1)
         IN  IF BitAnd(byte1, 128) # 0 /\ BitAnd(byte2, 128) # 0
             THEN BitAnd(byte1, 127) + Shl(BitAnd(byte2, 127), 7) + Shl(byte3, 14)
             ELSE IF BitAnd(byte1, 128) # 0
             THEN BitAnd(byte1, 127) + Shl(byte2, 7)
             ELSE byte1
    ELSE None

\* A plausible slip: the length test off by one (> 16 for >= 16).
total_area_off_by_one(data) ==
    IF Len(data) > 16
    THEN LET byte1 == At(data, 14)
             byte2 == At(data, 15)
         IN  IF BitAnd(byte1, 128) # 0
             THEN BitAnd(byte1, 127) + Shl(byte2, 7)
             ELSE byte1
    ELSE None

\* stats["total_area"] after the fixed-position read of bytes 14 and 15.
total_area(data) ==
    IF Len(data) >= 16
    THEN LET byte1 == At(data, 14)
             byte2 == At(data, 15)
         IN  IF BitAnd(byte1, 128) # 0
             THEN BitAnd(byte1, 127) + Shl(byte2, 7)
             ELSE byte1
    ELSE None

\* What `except Exception` catches: every exception b64decode raises.
ExceptionSubclasses == {"TypeError", "ValueError", "binascii.Error"}

\* A plausible slip: `except ValueError`, which lets b64decode's TypeError escape.
parse_dps167_statistics_narrow_except(dps167_value) ==
    LET decoded == b64decode(dps167_value)
        data == decoded.bytes
    IN  IF ~decoded.ok
        THEN [raised |-> decoded.exc \notin {"ValueError", "binascii.Error"},
              ret |-> empty_stats]
        ELSE IF Len(data) = 0
        THEN [raised |-> FALSE, ret |-> empty_stats]
        ELSE [raised |-> FALSE,
              ret |-> [empty_stats EXCEPT !.total_count = total_count(data),
                                          !.total_area = total_area(data)]]

\* A plausible slip: a cleaning time guessed from the first byte of the blob.
parse_dps167_statistics_guesses_time(dps167_value) ==
    LET decoded == b64decode(dps167_value)
        data == decoded.bytes
    IN  IF ~decoded.ok
        THEN [raised |-> decoded.exc \notin ExceptionSubclasses,
              ret |-> empty_stats]
        ELSE IF Len(data) = 0
        THEN [raised |-> FALSE, ret |-> empty_stats]
        ELSE [raised |-> FALSE,
              ret |-> [empty_stats EXCEPT !.total_count = total_count(data),
                                          !.total_area = total_area(data),
                                          !.total_time_mins = At(data, 0)]]

\* parse_dps167_statistics(dps167_value) -> stats; raised: an exception escaped.
parse_dps167_statistics(dps167_value) ==
    LET decoded == b64decode(dps167_value)
        data == decoded.bytes
    IN  IF ~decoded.ok
        THEN [raised |-> decoded.exc \notin ExceptionSubclasses,
              ret |-> empty_stats]
        ELSE IF Len(data) = 0
        THEN [raised |-> FALSE, ret |-> empty_stats]
        ELSE [raised |-> FALSE,
              ret |-> [empty_stats EXCEPT !.total_count = total_count(data),
                                          !.total_area = total_area(data)]]

----------------------------------------------------------------------------
(* The snapshot, coordinator.data: None, or a dict from DP keys to values. *)

NoneData == [is_none |-> TRUE, dps |-> <<>>]
Dict(f) == [is_none |-> FALSE, dps |-> f]

\* `not self.coordinator.data`: None and the empty dict are falsy.
DataFalsy(data) == data.is_none \/ DOMAIN data.dps = {}

\* self.coordinator.data.get(key, default)
Get(data, key, default) ==
    IF key \in DOMAIN data.dps THEN data.dps[key] ELSE default

----------------------------------------------------------------------------
(* TotalCleaningCountSensor.native_value and TotalCleaningAreaSensor.     *)
(* native_value: the value returned (ret) and the attribute afterwards    *)
(* (last); raised: an exception escaped the property.                     *)

\* A plausible slip: the filter dropped, every parsed sample accepted.
count_native_value_no_filter(data, last_valid) ==
    IF DataFalsy(data) THEN [raised |-> FALSE, ret |-> last_valid, last |-> last_valid]
    ELSE LET dps167 == Get(data, "167", Str(<<>>)) IN
    IF ~Truthy(dps167) THEN [raised |-> FALSE, ret |-> last_valid, last |-> last_valid]
    ELSE LET stats == parse_dps167_statistics(dps167)
             new_count == stats.ret.total_count IN
    IF stats.raised THEN [raised |-> TRUE, ret |-> None, last |-> last_valid]
    ELSE IF new_count = None
    THEN [raised |-> FALSE, ret |-> last_valid, last |-> last_valid]
    ELSE [raised |-> FALSE, ret |-> new_count, last |-> new_count]

\* A plausible slip: the `is None` test lost, so a first sample is never accepted.
count_native_value_no_first(data, last_valid) ==
    IF DataFalsy(data) THEN [raised |-> FALSE, ret |-> last_valid, last |-> last_valid]
    ELSE LET dps167 == Get(data, "167", Str(<<>>)) IN
    IF ~Truthy(dps167) THEN [raised |-> FALSE, ret |-> last_valid, last |-> last_valid]
    ELSE LET stats == parse_dps167_statistics(dps167)
             new_count == stats.ret.total_count IN
    IF stats.raised THEN [raised |-> TRUE, ret |-> None, last |-> last_valid]
    ELSE IF new_count = None
    THEN [raised |-> FALSE, ret |-> last_valid, last |-> last_valid]
    ELSE IF last_valid # None /\ new_count >= last_valid
    THEN [raised |-> FALSE, ret |-> new_count, last |-> new_count]
    ELSE [raised |-> FALSE, ret |-> last_valid, last |-> last_valid]

\* A plausible slip: an unparsable poll reported as unknown and the value forgotten.
count_native_value_forgets(data, last_valid) ==
    IF DataFalsy(data) THEN [raised |-> FALSE, ret |-> None, last |-> None]
    ELSE LET dps167 == Get(data, "167", Str(<<>>)) IN
    IF ~Truthy(dps167) THEN [raised |-> FALSE, ret |-> None, last |-> None]
    ELSE LET stats == parse_dps167_statistics(dps167)
             new_count == stats.ret.total_count IN
    IF stats.raised THEN [raised |-> TRUE, ret |-> None, last |-> last_valid]
    ELSE IF new_count = None
    THEN [raised |-> FALSE, ret |-> None, last |-> None]
    ELSE IF last_valid = None \/ new_count >= last_valid
    THEN [raised |-> FALSE, ret |-> new_count, last |-> new_count]
    ELSE [raised |-> FALSE, ret |-> last_valid, last |-> last_valid]

\* Mutant: an accepted reading is stored one above what was returned.
count_native_value_accumulates(data, last_valid) ==
    IF DataFalsy(data) THEN [raised |-> FALSE, ret |-> last_valid, last |-> last_valid]
    ELSE LET dps167 == Get(data, "167", Str(<<>>)) IN
    IF ~Truthy(dps167) THEN [raised |-> FALSE, ret |-> last_valid, last |-> last_valid]
    ELSE LET stats == parse_dps167_statistics(dps167)
             new_count == stats.ret.total_count IN
    IF stats.raised THEN [raised |-> TRUE, ret |-> None, last |-> last_valid]
    ELSE IF new_count = None
    THEN [raised |-> FALSE, ret |-> last_valid, last |-> last_valid]
    ELSE IF last_valid = None \/ new_count >= last_valid
    THEN [raised |-> FALSE, ret |-> new_count, last |-> new_count + 1]
    ELSE [raised |-> FALSE, ret |-> last_valid, last |-> last_valid]

count_native_value(data, last_valid) ==
    IF DataFalsy(data) THEN [raised |-> FALSE, ret |-> last_valid, last |-> last_valid]
    ELSE LET dps167 == Get(data, "167", Str(<<>>)) IN
    IF ~Truthy(dps167) THEN [raised |-> FALSE, ret |-> last_valid, last |-> last_valid]
    ELSE LET stats == parse_dps167_statistics(dps167)
             new_count == stats.ret.total_count IN
    IF stats.raised THEN [raised |-> TRUE, ret |-> None, last |-> last_valid]
    ELSE IF new_count = None
    THEN [raised |-> FALSE, ret |-> last_valid, last |-> last_valid]
    ELSE IF last_valid = None \/ new_count >= last_valid
    THEN [raised |-> FALSE, ret |-> new_count, last |-> new_count]
    ELSE [raised |-> FALSE, ret |-> last_valid, last |-> last_valid]

area_native_value(data, last_valid) ==
    IF DataFalsy(data) THEN [raised |-> FALSE, ret |-> last_valid, last |-> last_valid]
    ELSE LET dps167 == Get(data, "167", Str(<<>>)) IN
    IF ~Truthy(dps167) THEN [raised |-> FALSE, ret |-> last_valid, last |-> last_valid]
    ELSE LET stats == parse_dps167_statistics(dps167)
             new_area == stats.ret.total_area IN
    IF stats.raised THEN [raised |-> TRUE, ret |-> None, last |-> last_valid]
    ELSE IF new_area = None
    THEN [raised |-> FALSE, ret |-> last_valid, last |-> last_valid]
    ELSE IF last_valid = None \/ new_area >= last_valid
    THEN [raised |-> FALSE, ret |-> new_area, last |-> new_area]
    ELSE [raised |-> FALSE, ret |-> last_valid, last |-> last_valid]

----------------------------------------------------------------------------
(* What the device sends: the inputs of the polls. *)

\* The base-128 continuation encoding of an unsigned integer.
RECURSIVE encode_varint(_)
encode_varint(n) ==
    IF n < 128 THEN <<n>> ELSE <<(n % 128) + 128>> \o encode_varint(n \div 128)

Filler(n) == [i \in 1..n |-> 0]

\* The samples the device reports (None: the field cannot be read from the blob).
CountSamples == {2, 3, 5, 9, 12, 148}
AreaSamples == {40, 50, 148}

\* A statistics blob as observed: 14 leading bytes, the area at bytes 14-15,
\* the count as the last field under tag 0x18.  Without an area the blob is
\* short; without a count it has no tag.
StatBlob(count, area) ==
    (IF area = None THEN Filler(3)
     ELSE Filler(14) \o (IF area < 128 THEN <<area, 0>> ELSE encode_varint(area)))
    \o (IF count = None THEN <<>> ELSE <<TAG_0x18>> \o encode_varint(count))

StatBlobs ==
    {StatBlob(c, a) : c \in CountSamples \cup {None}, a \in AreaSamples \cup {None}}

\* Values DP 167 can hold: encoded blobs, the empty text, a text cut short
\* (bad padding), a text of junk only, and values that are not text.
Dps167Values ==
    {Str(b64encode(b)) : b \in StatBlobs}
    \cup {Str(<<>>), Str(<<6, 0, 28>>), Str(<<B64_JUNK, B64_JUNK>>),
          Str(<<NON_ASCII>>), IntValue(5), IntValue(0)}

BatteryValue == IntValue(80)

Snapshots ==
    {NoneData, Dict(<<>>), Dict([k \in {"8"} |-> BatteryValue])}
    \cup {Dict([k \in {"8", "167"} |-> IF k = "8" THEN BatteryValue ELSE v]) :
            v \in Dps167Values}

----------------------------------------------------------------------------
(* Spec: one device's two statistics sensors under polls and state reads. *)

\* The sensors as constructed: no snapshot yet, nothing accepted, nothing read.
SensorsInit ==
    /\ coordinator_data = NoneData
    /\ _last_valid_count = None
    /\ _last_valid_area = None
    /\ count_value = None
    /\ area_value = None
    /\ last_op = "init"
    /\ seen = {}
    /\ reads = [count |-> 0, area |-> 0]

\* No call of parse_dps167_statistics in progress.
ParseIdle ==
    /\ p_input = Str(<<>>)
    /\ p_result = [raised |-> FALSE, ret |-> empty_stats]
    /\ p_pc = "idle"

\* No call of decode_varint in progress.
VarintIdle ==
    /\ v_data = <<>>
    /\ v_values = <<>>
    /\ v_start = 0
    /\ v_result = [raised |-> FALSE, value |-> 0, pos |-> 0]
    /\ v_decoded = <<>>
    /\ v_pc = "idle"

\* No read of the battery or running-status sensor yet.
StatusIdle ==
    /\ battery_value = [read |-> FALSE, raised |-> FALSE, ret |-> None]
    /\ running_value = [read |-> FALSE, is_none |-> FALSE, ret |-> ""]

\* No setup of the config entry in progress.
SetupIdle ==
    /\ cloud_devices = <<>>
    /\ manual_devices = <<>>
    /\ discover_result = <<>>
    /\ detected_devices = <<>>
    /\ refresh_raises = <<>>
    /\ forward_api = "new"
    /\ todo = <<>>
    /\ registered = <<>>
    /\ forwarded = {}
    /\ platform_todo = <<>>
    /\ entities = <<>>
    /\ added = <<>>
    /\ setup_log = {}
    /\ setup_pc = "idle"
    /\ setup_result = "pending"

Init == SensorsInit /\ ParseIdle /\ VarintIdle /\ StatusIdle /\ SetupIdle

\* Reads of one sensor counted between two polls; further reads are not counted.
MaxReads == 2

\* A refresh of the coordinator replaces the snapshot wholesale.
Poll ==
    \E snapshot \in Snapshots :
        /\ coordinator_data' = snapshot
        /\ last_op' = "poll"
        /\ seen' = {}
        /\ reads' = [count |-> 0, area |-> 0]
        /\ UNCHANGED <<_last_valid_count, _last_valid_area, count_value, area_value>>
        /\ UNCHANGED <<parseVars, varintVars, statusVars, setupVars>>

\* Home Assistant reads TotalCleaningCountSensor.native_value.
ReadCount ==
    LET r == count_native_value(coordinator_data, _last_valid_count) IN
        /\ _last_valid_count' = r.last
        /\ count_value' = r.ret
        /\ last_op' = IF r.raised THEN "count_raised" ELSE "count"
        /\ seen' = seen \cup {"count"}
        /\ reads' = [reads EXCEPT !.count = Min(reads.count + 1, MaxReads)]
        /\ UNCHANGED <<coordinator_data, _last_valid_area, area_value>>
        /\ UNCHANGED <<parseVars, varintVars, statusVars, setupVars>>

\* A plausible slip: both sensors keeping their last value in one shared place.
ReadAreaShared ==
    LET r == area_native_value(coordinator_data, _last_valid_count) IN
        /\ _last_valid_count' = r.last
        /\ _last_valid_area' = r.last
        /\ area_value' = r.ret
        /\ last_op' = IF r.raised THEN "area_raised" ELSE "area"
        /\ seen' = seen \cup {"area"}
        /\ reads' = [reads EXCEPT !.area = Min(reads.area + 1, MaxReads)]
        /\ UNCHANGED <<coordinator_data, count_value>>
        /\ UNCHANGED <<parseVars, varintVars, statusVars, setupVars>>

\* Home Assistant reads TotalCleaningAreaSensor.native_value.
ReadArea ==
    LET r == area_native_value(coordinator_data, _last_valid_area) IN
        /\ _last_valid_area' = r.last
        /\ area_value' = r.ret
        /\ last_op' = IF r.raised THEN "area_raised" ELSE "area"
        /\ seen' = seen \cup {"area"}
        /\ reads' = [reads EXCEPT !.area = Min(reads.area + 1, MaxReads)]
        /\ UNCHANGED <<coordinator_data, _last_valid_count, count_value>>
        /\ UNCHANGED <<parseVars, varintVars, statusVars, setupVars>>

Next == Poll \/ ReadCount \/ ReadArea

Spec == Init /\ [][Next]_vars

----------------------------------------------------------------------------
(* Properties of the stabilised sensors (checked under Spec). *)

\* The statistics the current snapshot yields: both None when the snapshot is
\* missing or empty, or DP 167 is absent or empty.
CurrentStats ==
    IF DataFalsy(coordinator_data) \/ ~Truthy(Get(coordinator_data, "167", Str(<<>>)))
    THEN empty_stats
    ELSE parse_dps167_statistics(coordinator_data.dps["167"]).ret

SampleCount == CurrentStats.total_count
SampleArea == CurrentStats.total_area

Max(a, b) == IF a >= b THEN a ELSE b

\* The stabiliser's contract: the last valid value after a sample.
Stabilized(last_valid, sample) ==
    IF sample = None THEN last_valid
    ELSE IF last_valid = None THEN sample
    ELSE Max(last_valid, sample)

\* C1: the non-null values each sensor returns never decrease (and a sensor that
\* has returned a value never returns null again), and a read whose parsed sample
\* is lower than the last valid value returns that value and keeps it.
C1_Monotonic ==
    [][/\ count_value # None => (count_value' # None /\ count_value' >= count_value)
       /\ area_value # None => (area_value' # None /\ area_value' >= area_value)
       /\ (/\ last_op' \in {"count", "count_raised"}
           /\ SampleCount # None /\ _last_valid_count # None
           /\ SampleCount < _last_valid_count)
          => (count_value' = _last_valid_count /\ _last_valid_count' = _last_valid_count)
       /\ (/\ last_op' \in {"area", "area_raised"}
           /\ SampleArea # None /\ _last_valid_area # None
           /\ SampleArea < _last_valid_area)
          => (area_value' = _last_valid_area /\ _last_valid_area' = _last_valid_area)
      ]_vars

\* C1 witness: after 9 was accepted, a read of a snapshot whose count is 3 returned 9.
C1_Witness ==
    /\ last_op = "count"
    /\ SampleCount = 3
    /\ _last_valid_count = 9
    /\ count_value = 9

\* C2: a read whose sample is non-null, with nothing accepted yet or the sample
\* >= the last valid value, stores the sample and returns it.
C2_Accept ==
    [][/\ (/\ last_op' \in {"count", "count_raised"}
           /\ SampleCount # None
           /\ (_last_valid_count = None \/ SampleCount >= _last_valid_count))
          => (_last_valid_count' = SampleCount /\ count_value' = SampleCount)
       /\ (/\ last_op' \in {"area", "area_raised"}
           /\ SampleArea # None
           /\ (_last_valid_area = None \/ SampleArea >= _last_valid_area))
          => (_last_valid_area' = SampleArea /\ area_value' = SampleArea)
      ]_vars

\* C2 witness: both sensors have read a snapshot and hold its samples, the count a
\* large one (148) and the area 40.
C2_Witness ==
    /\ seen = {"count", "area"}
    /\ SampleCount = 148 /\ _last_valid_count = 148 /\ count_value = 148
    /\ SampleArea = 40 /\ _last_valid_area = 40 /\ area_value = 40

\* C3: a read whose sample is null (snapshot missing or empty, DP 167 absent or
\* empty, field not parsed) leaves the last valid value as it was and returns it.
C3_NullKeeps ==
    [][/\ (last_op' \in {"count", "count_raised"} /\ SampleCount = None)
          => (_last_valid_count' = _last_valid_count /\ count_value' = _last_valid_count)
       /\ (last_op' \in {"area", "area_raised"} /\ SampleArea = None)
          => (_last_valid_area' = _last_valid_area /\ area_value' = _last_valid_area)
      ]_vars

\* C3 witness: the snapshot is missing, the count sensor was read and returned the
\* 9 it held, and the area sensor was read and returned null, having held nothing.
C3_Witness ==
    /\ coordinator_data.is_none
    /\ seen = {"count", "area"}
    /\ _last_valid_count = 9 /\ count_value = 9
    /\ _last_valid_area = None /\ area_value = None

\* C4: a read of one sensor leaves the other sensor's last valid value alone, and
\* its own new last valid value is decided by its own sample and old value only.
C4_Independent ==
    [][/\ last_op' \in {"count", "count_raised"}
          => /\ _last_valid_area' = _last_valid_area
             /\ _last_valid_count' = Stabilized(_last_valid_count, SampleCount)
       /\ last_op' \in {"area", "area_raised"}
          => /\ _last_valid_count' = _last_valid_count
             /\ _last_valid_area' = Stabilized(_last_valid_area, SampleArea)
      ]_vars

\* C4 witness: holding count 3 and area 50, both sensors have read a snapshot with
\* count 2 and area 40 and still return 3 and 50.
C4_Witness ==
    /\ seen = {"count", "area"}
    /\ SampleCount = 2 /\ SampleArea = 40
    /\ _last_valid_count = 3 /\ count_value = 3
    /\ _last_valid_area = 50 /\ area_value = 50

----------------------------------------------------------------------------
\* C16: reading a statistics sensor again while the snapshot is unchanged
\* returns what the previous read returned and leaves the stored last valid
\* value as it was, for the count sensor and for the area sensor.
C16_ReadIdempotent ==
    [][/\ (last_op' \in {"count", "count_raised"} /\ reads.count >= 1)
           => /\ count_value' = count_value
              /\ _last_valid_count' = _last_valid_count
       /\ (last_op' \in {"area", "area_raised"} /\ reads.area >= 1)
           => /\ area_value' = area_value
              /\ _last_valid_area' = _last_valid_area]_vars

\* Both sensors were read at least twice on one snapshot that carries a
\* smaller count than the stored one, and the count read came last.
C16_Witness ==
    /\ reads.count >= 2 /\ reads.area >= 2
    /\ last_op = "count"
    /\ SampleCount # None /\ SampleCount < _last_valid_count
    /\ count_value = _last_valid_count
    /\ area_value # None

(* ParseSpec: parse_dps167_statistics applied to bounded inputs. *)

\* Longest blob; bytes 14 and 15 exist from length 16 on.
MaxLen == 17

\* Byte values at the end of a blob: the tag, small values, values with bit 7 set.
TailBytes == {1, 7, 24, 50, 128, 148, 255}

RECURSIVE SeqsOf(_, _)
SeqsOf(S, n) ==
    IF n = 0 THEN {<<>>}
    ELSE {Append(q, x) : q \in SeqsOf(S, n - 1), x \in S}

\* Blobs of every length up to MaxLen whose last four bytes range over TailBytes.
ParseBlobs ==
    UNION {{Filler(n - Len(tail)) \o tail : tail \in SeqsOf(TailBytes, Min(n, 4))} :
             n \in 0..MaxLen}

\* Texts that are no encoding of a blob: cut short, a lone character, padding or
\* junk only, junk inside an encoding, non-ASCII; and values that are not text.
OddValues ==
    {Str(<<6, 0, 28>>), Str(<<6, 0>>), Str(<<6>>), Str(<<6, 0, 28, B64_PAD, 6>>),
     Str(<<6, 0, B64_PAD, 28>>), Str(<<B64_PAD, B64_PAD, B64_PAD, B64_PAD>>),
     Str(<<B64_JUNK, B64_JUNK>>), Str(<<6, B64_JUNK, 0, 28, B64_PAD>>),
     Str(<<6, 0, 28, B64_PAD, NON_ASCII>>), Str(<<NON_ASCII>>),
     IntValue(5), IntValue(0)}

ParseInputs == {Str(b64encode(b)) : b \in ParseBlobs} \cup OddValues

ParseInit ==
    /\ SensorsInit /\ VarintIdle /\ StatusIdle /\ SetupIdle
    /\ p_input \in ParseInputs
    /\ p_result = [raised |-> FALSE, ret |-> empty_stats]
    /\ p_pc = "ready"

\* The call stats = parse_dps167_statistics(p_input).
CallParse ==
    /\ p_pc = "ready"
    /\ p_result' = parse_dps167_statistics(p_input)
    /\ p_pc' = "done"
    /\ UNCHANGED <<p_input, sensorVars, varintVars, statusVars, setupVars>>

ParseNext == CallParse

ParseSpec == ParseInit /\ [][ParseNext]_vars

----------------------------------------------------------------------------
(* Properties of parse_dps167_statistics (checked under ParseSpec). *)

\* The outcome of removing the text envelope from the call's argument.
Decoded == b64decode(p_input)

\* The 0-based position of the tag the count is read from: the first of len-2,
\* len-3, len-4 that exists and holds 0x18; None when none does.
TagPos(d) ==
    LET n == Len(d) IN
    IF n >= 2 /\ d[n - 1] = 24 THEN n - 2
    ELSE IF n >= 3 /\ d[n - 2] = 24 THEN n - 3
    ELSE IF n >= 4 /\ d[n - 3] = 24 THEN n - 4
    ELSE None

\* The 2-byte and 3-byte forms, by arithmetic (bit 7 set: the byte is >= 128).
TwoByteForm(b1, b2) == (b1 - 128) + b2 * 128
ThreeByteForm(b1, b2, b3) == (b1 - 128) + (b2 - 128) * 128 + b3 * 16384

\* total_count as stated for a byte sequence d.
StatedCount(d) ==
    LET n == Len(d)
        t == TagPos(d)
    IN  IF t = None THEN None
        ELSE IF t = n - 2 THEN d[n]
        ELSE IF t = n - 3
        THEN IF d[n - 1] >= 128 THEN TwoByteForm(d[n - 1], d[n]) ELSE d[n - 1]
        ELSE IF d[n - 2] >= 128 /\ d[n - 1] >= 128
             THEN ThreeByteForm(d[n - 2], d[n - 1], d[n])
             ELSE IF d[n - 2] >= 128 THEN TwoByteForm(d[n - 2], d[n - 1])
             ELSE d[n - 2]

\* total_area as stated for a byte sequence d (bytes 14 and 15 are d[15], d[16]).
StatedArea(d) ==
    IF Len(d) >= 16
    THEN IF d[15] >= 128 THEN TwoByteForm(d[15], d[16]) ELSE d[15]
    ELSE None

\* C5: for every decoded byte sequence, total_count is the value read after the
\* first of the tag positions len-2, len-3, len-4 holding 0x18 (1-, 2- or 3-byte
\* form by the continuation bits), and null when no position holds the tag.
C5_TotalCount ==
    (p_pc = "done" /\ Decoded.ok)
        => (~p_result.raised /\ p_result.ret.total_count = StatedCount(Decoded.bytes))

\* C5 witness: a blob ending in [0x18, 0x94, 0x01] was parsed and gave 148.
C5_Witness ==
    /\ p_pc = "done" /\ Decoded.ok
    /\ Len(Decoded.bytes) >= 3
    /\ SubSeq(Decoded.bytes, Len(Decoded.bytes) - 2, Len(Decoded.bytes)) = <<24, 148, 1>>
    /\ p_result.ret.total_count = 148

\* C6: total_area is read from bytes 14 and 15 exactly when the decoded blob has
\* at least 16 bytes, whatever the tag search found; it is null for shorter blobs.
C6_TotalArea ==
    (p_pc = "done" /\ Decoded.ok)
        => /\ ~p_result.raised
           /\ p_result.ret.total_area = StatedArea(Decoded.bytes)
           /\ (p_result.ret.total_area # None) <=> (Len(Decoded.bytes) >= 16)

\* C6 witness: a 16-byte blob with bytes 14, 15 = 0x94, 0x01 and no tag was parsed:
\* the area is 148 and the count is null.
C6_Witness ==
    /\ p_pc = "done" /\ Decoded.ok
    /\ Len(Decoded.bytes) = 16
    /\ Decoded.bytes[15] = 148 /\ Decoded.bytes[16] = 1
    /\ p_result.ret.total_area = 148
    /\ p_result.ret.total_count = None

\* C7: no exception escapes the parser, and an input whose decoding fails or
\* yields zero bytes gives null for both total_count and total_area.
C7_MalformedIsNull ==
    p_pc = "done"
        => /\ ~p_result.raised
           /\ (~Decoded.ok \/ Decoded.bytes = <<>>)
                => (p_result.ret.total_count = None /\ p_result.ret.total_area = None)

\* C7 witness: a value that is not text (decoding raises TypeError) was parsed.
C7_Witness ==
    /\ p_pc = "done"
    /\ p_input = IntValue(5)
    /\ ~Decoded.ok
    /\ p_result.ret.total_count = None /\ p_result.ret.total_area = None

\* C11 as stated: on every path the result holds exactly the fields total_count
\* and total_area; a cleaning-time field is absent from it.
C11_AsStated ==
    p_pc = "done" => DOMAIN p_result.ret = {"total_count", "total_area"}

\* C11 amended: on every path the result holds exactly the keys total_count,
\* total_area and total_time_mins, and total_time_mins is always null: the
\* cleaning time is present but never decoded.
C11_TimeKeyAlwaysNull ==
    p_pc = "done"
        => /\ DOMAIN p_result.ret = {"total_count", "total_area", "total_time_mins"}
           /\ p_result.ret.total_time_mins = None

\* C11 witness: a blob with both a count and an area was parsed (the success
\* path), and the result still carries total_time_mins, null.
C11_Witness ==
    /\ p_pc = "done" /\ Decoded.ok
    /\ p_result.ret.total_count # None
    /\ p_result.ret.total_area # None
    /\ "total_time_mins" \in DOMAIN p_result.ret
    /\ p_result.ret.total_time_mins = None

\* Some byte from position `from` to position `to` (0-based) has bit 7 clear:
\* a varint starting at `from` ends there or before.
EndsWithin(d, from, to) == \E i \in from..to : At(d, i) < 128

\* C10 as stated: a non-null total_count is what decode_varint returns from the
\* byte after the matched tag, a non-null total_area what it returns from offset 14.
C10_AsStated ==
    (p_pc = "done" /\ Decoded.ok)
        => LET d == Decoded.bytes IN
           /\ p_result.ret.total_count # None
                => p_result.ret.total_count = decode_varint(d, TagPos(d) + 1).value
           /\ p_result.ret.total_area # None
                => p_result.ret.total_area = decode_varint(d, 14).value

\* C10 amended: the parser's count equals decode_varint's value from the byte
\* after the matched tag whenever the varint there ends within the blob, and the
\* area equals decode_varint's value from offset 14 whenever the varint there ends
\* at byte 14 or 15.
C10_VarintWhenComplete ==
    (p_pc = "done" /\ Decoded.ok)
        => LET d == Decoded.bytes IN
           /\ (/\ p_result.ret.total_count # None
               /\ EndsWithin(d, TagPos(d) + 1, Len(d) - 1))
                => p_result.ret.total_count = decode_varint(d, TagPos(d) + 1).value
           /\ (p_result.ret.total_area # None /\ EndsWithin(d, 14, 15))
                => p_result.ret.total_area = decode_varint(d, 14).value

\* C10 witness: a blob of at least 16 bytes was parsed whose area at 14-15 and
\* whose count after the tag are complete 2-byte varints, both equal to what
\* decode_varint returns there.
C10_Witness ==
    /\ p_pc = "done" /\ Decoded.ok
    /\ LET d == Decoded.bytes IN
       /\ Len(d) >= 16
       /\ TagPos(d) # None
       /\ At(d, TagPos(d) + 1) >= 128
       /\ EndsWithin(d, TagPos(d) + 1, Len(d) - 1)
       /\ At(d, 14) >= 128 /\ At(d, 15) < 128
       /\ p_result.ret.total_count = decode_varint(d, TagPos(d) + 1).value
       /\ p_result.ret.total_area = decode_varint(d, 14).value

----------------------------------------------------------------------------
(* VarintSpec: decode_varint on encoded integer sequences, called repeatedly *)
(* from the position the previous call returned, and on raw byte sequences   *)
(* from any start position.                                                  *)

\* Integers < 2^21 at the edges of the 1-, 2- and 3-byte encodings.
VarintValues == {0, 1, 127, 128, 300, 16383, 16384, 2097151}

\* Longest sequence of encoded integers.
MaxValues == 3

\* Raw byte values: with and without the continuation bit.
RawBytes == {0, 1, 127, 128, 255}

\* Longest raw byte sequence.
MaxRaw == 3

RECURSIVE EncodeAll(_)
EncodeAll(values) ==
    IF values = <<>> THEN <<>>
    ELSE encode_varint(Head(values)) \o EncodeAll(Tail(values))

VarintInit ==
    /\ SensorsInit /\ ParseIdle /\ StatusIdle /\ SetupIdle
    /\ v_result = [raised |-> FALSE, value |-> 0, pos |-> 0]
    /\ v_decoded = <<>>
    /\ \/ /\ v_pc = "encoded"
          /\ v_values \in UNION {SeqsOf(VarintValues, n) : n \in 0..MaxValues}
          /\ v_data = EncodeAll(v_values)
          /\ v_start = 0
       \/ /\ v_pc = "raw_ready"
          /\ v_values = <<>>
          /\ v_data \in UNION {SeqsOf(RawBytes, n) : n \in 0..MaxRaw}
          /\ v_start \in 0..(Len(v_data) + 1)

\* One more call on the encoded sequence, from where the previous call ended.
DecodeNext ==
    /\ v_pc = "encoded"
    /\ Len(v_decoded) < Len(v_values)
    /\ LET r == decode_varint(v_data, v_start) IN
        /\ v_result' = r
        /\ v_decoded' = Append(v_decoded, r.value)
        /\ v_start' = r.pos
    /\ UNCHANGED <<v_data, v_values, v_pc, sensorVars, parseVars, statusVars, setupVars>>

\* The call decode_varint(v_data, v_start) on raw bytes.
DecodeAt ==
    /\ v_pc = "raw_ready"
    /\ v_result' = decode_varint(v_data, v_start)
    /\ v_pc' = "raw_called"
    /\ UNCHANGED <<v_data, v_values, v_start, v_decoded, sensorVars, parseVars,
                   statusVars, setupVars>>

VarintNext == DecodeNext \/ DecodeAt

VarintSpec == VarintInit /\ [][VarintNext]_vars

----------------------------------------------------------------------------
(* Properties of decode_varint (checked under VarintSpec). *)

\* Bytes the encoding of n < 2^21 takes.
EncodedSize(n) == IF n < 128 THEN 1 ELSE IF n < 16384 THEN 2 ELSE 3

RECURSIVE OffsetAfter(_, _)
\* Offset where the encoding of values[k + 1] begins (the total length for k = Len).
OffsetAfter(values, k) ==
    IF k = 0 THEN 0 ELSE OffsetAfter(values, k - 1) + EncodedSize(values[k])

\* C8: decoding an encoded sequence call after call, each from the previous next
\* position, gives back the values in order, and each next position is the offset
\* where the next encoding begins (the total length after the last).
C8_RoundTrip ==
    v_pc = "encoded"
        => /\ ~v_result.raised
           /\ v_decoded = SubSeq(v_values, 1, Len(v_decoded))
           /\ v_start = OffsetAfter(v_values, Len(v_decoded))
           /\ Len(v_decoded) = Len(v_values) => v_start = Len(v_data)

\* C8 witness: 300, 0, 2097151 (2, 1 and 3 bytes) were decoded back, ending at 6.
C8_Witness ==
    /\ v_pc = "encoded"
    /\ v_values = <<300, 0, 2097151>>
    /\ v_decoded = v_values
    /\ v_start = 6

\* The position after the first byte at or after start with bit 7 clear; the end
\* of the input when there is none; start itself when start is at or past the end.
StopPosition(d, start) ==
    LET ends == {i \in start..(Len(d) - 1) : At(d, i) < 128} IN
    IF start >= Len(d) THEN start
    ELSE IF ends = {} THEN Len(d)
    ELSE (CHOOSE i \in ends : \A j \in ends : i <= j) + 1

RECURSIVE GroupsValue(_, _, _)
\* The low 7 bits of bytes from..to-1 as little-endian base-128 digits.
GroupsValue(d, from, to) ==
    IF from >= to THEN 0 ELSE (At(d, from) % 128) + 128 * GroupsValue(d, from + 1, to)

\* C9: on any bytes and any start position decode_varint raises nothing, ends
\* after the first byte with bit 7 clear or at the end of the input, its value is
\* made of exactly the bytes before that position, and from a start at or past
\* the end it returns 0 and the start position.
C9_Truncated ==
    v_pc = "raw_called"
        => /\ ~v_result.raised
           /\ v_result.pos = StopPosition(v_data, v_start)
           /\ v_result.value = GroupsValue(v_data, v_start, v_result.pos)
           /\ v_start >= Len(v_data) => (v_result.value = 0 /\ v_result.pos = v_start)

\* C9 witness: <<0x80, 0xFF>> from 0, cut short with the continuation bit set on
\* the last byte, returned 127 * 128 and the position 2 = len.
C9_Witness ==
    /\ v_pc = "raw_called"
    /\ v_data = <<128, 255>>
    /\ v_start = 0
    /\ v_result = [raised |-> FALSE, value |-> 16256, pos |-> 2]

-----------------------------------------------------------------------------
(* BatteryPercentageSensor.native_value and RunningStatusSensor.native_value *)

BoolValue(b) == [type |-> "bool", chars |-> <<>>, n |-> IF b THEN 1 ELSE 0]
NoneValue == [type |-> "none", chars |-> <<>>, n |-> 0]

\* Characters of a decimal text: the digits '0'..'9' are the base64 classes
\* 52..61 and '+' is class 62.
DIGIT_0 == 52
PLUS == 62
IsDigit(c) == c >= DIGIT_0 /\ c <= DIGIT_0 + 9

\* The number a text of digits denotes.
RECURSIVE digits_value(_, _)
digits_value(chars, acc) ==
    IF chars = <<>> THEN acc
    ELSE digits_value(Tail(chars), acc * 10 + (Head(chars) - DIGIT_0))

\* int(value): an integer is itself, a boolean is 0 or 1, a text is parsed as
\* an optional '+' and decimal digits (ValueError for any other text of the
\* alphabet modelled here), None is a TypeError.
int(value) ==
    IF value.type = "int" \/ value.type = "bool"
    THEN [exc |-> "", n |-> value.n]
    ELSE IF value.type = "none"
    THEN [exc |-> "TypeError", n |-> 0]
    ELSE LET body == IF value.chars # <<>> /\ Head(value.chars) = PLUS
                     THEN Tail(value.chars) ELSE value.chars IN
         IF body # <<>> /\ \A i \in 1..Len(body) : IsDigit(body[i])
         THEN [exc |-> "", n |-> digits_value(body, 0)]
         ELSE [exc |-> "ValueError", n |-> 0]

\* self.coordinator.data.get(key): None for an absent key.
GetOrNone(data, key) == Get(data, key, NoneValue)

\* Mutant: the range test is dropped.
battery_of_any_number(value) ==
    IF value.type = "none" THEN [taken |-> FALSE, n |-> 0]
    ELSE LET battery == int(value) IN
         IF battery.exc \in {"ValueError", "TypeError"}
         THEN [taken |-> FALSE, n |-> 0]
         ELSE [taken |-> TRUE, n |-> battery.n]

\* One of the two try blocks: the percentage a DP value yields, or "pass".
battery_of(value) ==
    IF value.type = "none" THEN [taken |-> FALSE, n |-> 0]
    ELSE LET battery == int(value) IN
         IF battery.exc \in {"ValueError", "TypeError"}
         THEN [taken |-> FALSE, n |-> 0]
         ELSE IF 0 <= battery.n /\ battery.n <= 100
         THEN [taken |-> TRUE, n |-> battery.n]
         ELSE [taken |-> FALSE, n |-> 0]

battery_native_value(data) ==
    IF DataFalsy(data) THEN None
    ELSE IF battery_of(GetOrNone(data, "8")).taken
    THEN battery_of(GetOrNone(data, "8")).n
    ELSE IF battery_of(GetOrNone(data, "163")).taken
    THEN battery_of(GetOrNone(data, "163")).n
    ELSE None

\* The status table of the classifier: decoded bytes to (state, substatus).
StatusTable ==
    { [pattern |-> <<1>>,    state |-> "Cleaning",  substatus |-> "cleaning"],
      [pattern |-> <<2>>,    state |-> "Paused",    substatus |-> "paused"],
      [pattern |-> <<3, 1>>, state |-> "Docked",    substatus |-> "charging"],
      [pattern |-> <<3, 2>>, state |-> "Docked",    substatus |-> "fully_charged"],
      [pattern |-> <<4>>,    state |-> "Returning", substatus |-> "returning"] }

\* decode_dps153_to_state: the table entry of the decoded bytes, and
\* (Unknown, unknown) for a value that does not decode or matches no entry.
decode_dps153_to_state(dps153) ==
    LET decoded == b64decode(dps153)
        hits == IF decoded.ok
                THEN {e \in StatusTable : e.pattern = decoded.bytes}
                ELSE {} IN
        IF hits = {} THEN [state |-> "Unknown", substatus |-> "unknown"]
        ELSE LET e == CHOOSE e \in hits : TRUE IN
                 [state |-> e.state, substatus |-> e.substatus]

\* SUBSTATUS_DESCRIPTIONS: one description for each described substatus.
SUBSTATUS_DESCRIPTIONS ==
    [ cleaning      |-> "Cleaning",
      paused        |-> "Paused",
      returning     |-> "Returning to Dock",
      charging      |-> "Charging",
      fully_charged |-> "Fully Charged" ]

\* SUBSTATUS_DESCRIPTIONS.get(substatus, "Unknown")
description_of(substatus) ==
    IF substatus \in DOMAIN SUBSTATUS_DESCRIPTIONS
    THEN SUBSTATUS_DESCRIPTIONS[substatus] ELSE "Unknown"

\* `dps2 is True`, `dps2 is False`: the boolean objects themselves, so the
\* integers 1 and 0 are neither.
IsTrue(v) == v.type = "bool" /\ v.n = 1
IsFalse(v) == v.type = "bool" /\ v.n = 0

\* Mutant: the coarse flag is consulted before DP 153.
running_native_value_flag_first(data) ==
    IF DataFalsy(data) THEN [is_none |-> FALSE, ret |-> "Unknown"]
    ELSE LET dps153 == Get(data, "153", Str(<<>>))
             dps2 == GetOrNone(data, "2") IN
         IF IsTrue(dps2) THEN [is_none |-> FALSE, ret |-> "Running"]
         ELSE IF IsFalse(dps2) THEN [is_none |-> FALSE, ret |-> "Stopped"]
         ELSE IF Truthy(dps153)
         THEN [is_none |-> FALSE,
               ret |-> description_of(decode_dps153_to_state(dps153).substatus)]
         ELSE [is_none |-> FALSE, ret |-> "Unknown"]

\* Mutant: no "Unknown" default, a substatus without a description and an
\* undecided flag give None.
running_native_value_no_default(data) ==
    IF DataFalsy(data) THEN [is_none |-> FALSE, ret |-> "Unknown"]
    ELSE LET dps153 == Get(data, "153", Str(<<>>))
             dps2 == GetOrNone(data, "2") IN
         IF Truthy(dps153)
         THEN LET substatus == decode_dps153_to_state(dps153).substatus IN
              IF substatus \in DOMAIN SUBSTATUS_DESCRIPTIONS
              THEN [is_none |-> FALSE, ret |-> SUBSTATUS_DESCRIPTIONS[substatus]]
              ELSE [is_none |-> TRUE, ret |-> ""]
         ELSE IF IsTrue(dps2) THEN [is_none |-> FALSE, ret |-> "Running"]
         ELSE IF IsFalse(dps2) THEN [is_none |-> FALSE, ret |-> "Stopped"]
         ELSE [is_none |-> TRUE, ret |-> ""]

\* RunningStatusSensor.native_value: the text returned (is_none: None instead).
running_native_value(data) ==
    IF DataFalsy(data) THEN [is_none |-> FALSE, ret |-> "Unknown"]
    ELSE LET dps153 == Get(data, "153", Str(<<>>))
             dps2 == GetOrNone(data, "2") IN
         IF Truthy(dps153)
         THEN [is_none |-> FALSE,
               ret |-> description_of(decode_dps153_to_state(dps153).substatus)]
         ELSE IF IsTrue(dps2) THEN [is_none |-> FALSE, ret |-> "Running"]
         ELSE IF IsFalse(dps2) THEN [is_none |-> FALSE, ret |-> "Stopped"]
         ELSE [is_none |-> FALSE, ret |-> "Unknown"]

-----------------------------------------------------------------------------
(* StatusSpec: the battery and running-status sensors read on one snapshot. *)

\* A key the snapshot does not hold.
Absent == [type |-> "absent", chars |-> <<>>, n |-> 0]

\* The text of a decimal number below 1000, without leading zeros.
DecimalText(n) ==
    Str(IF n < 10 THEN <<DIGIT_0 + n>>
        ELSE IF n < 100 THEN <<DIGIT_0 + (n \div 10), DIGIT_0 + (n % 10)>>
        ELSE <<DIGIT_0 + (n \div 100), DIGIT_0 + ((n \div 10) % 10),
               DIGIT_0 + (n % 10)>>)

\* Values of DP 8: integers in and out of range, booleans, numeric and other texts.
Dps8Values ==
    {Absent, NoneValue, IntValue(0), IntValue(85), IntValue(100), IntValue(101),
     IntValue(0 - 5), BoolValue(TRUE), DecimalText(50), DecimalText(150),
     Str(<<0, 1>>), Str(<<>>)}

Dps163Values ==
    {Absent, IntValue(40), IntValue(200), DecimalText(70), Str(<<23>>)}

Dps2Values ==
    {Absent, BoolValue(TRUE), BoolValue(FALSE), IntValue(1), NoneValue}

\* Values of DP 153: each table pattern, an unlisted pattern, a text that does
\* not decode, the empty text and a non-text.
Dps153Values ==
    {Absent, Str(<<>>), Str(<<NON_ASCII>>), Str(b64encode(<<9>>)), IntValue(0)}
    \cup {Str(b64encode(e.pattern)) : e \in StatusTable}

StatusKeys == {"8", "163", "2", "153"}

\* The snapshot holding the given values under their keys.
StatusSnapshot(d8, d163, d2, d153) ==
    LET value(k) == IF k = "8" THEN d8 ELSE IF k = "163" THEN d163
                    ELSE IF k = "2" THEN d2 ELSE d153 IN
        Dict([k \in {k \in StatusKeys : value(k) # Absent} |-> value(k)])

StatusSnapshots ==
    {NoneData}
    \cup {StatusSnapshot(d8, d163, d2, d153) :
            d8 \in Dps8Values, d163 \in Dps163Values,
            d2 \in Dps2Values, d153 \in Dps153Values}

StatusInit ==
    /\ coordinator_data \in StatusSnapshots
    /\ _last_valid_count = None
    /\ _last_valid_area = None
    /\ count_value = None
    /\ area_value = None
    /\ last_op = "init"
    /\ seen = {}
    /\ reads = [count |-> 0, area |-> 0]
    /\ StatusIdle
    /\ ParseIdle /\ VarintIdle /\ SetupIdle

ReadBattery ==
    /\ battery_value' = [read |-> TRUE, raised |-> FALSE,
                         ret |-> battery_native_value(coordinator_data)]
    /\ last_op' = "battery"
    /\ UNCHANGED <<coordinator_data, _last_valid_count, _last_valid_area,
                   count_value, area_value, seen, reads, running_value>>
    /\ UNCHANGED <<parseVars, varintVars, setupVars>>

ReadRunning ==
    /\ LET r == running_native_value(coordinator_data) IN
           running_value' = [read |-> TRUE, is_none |-> r.is_none, ret |-> r.ret]
    /\ last_op' = "running"
    /\ UNCHANGED <<coordinator_data, _last_valid_count, _last_valid_area,
                   count_value, area_value, seen, reads, battery_value>>
    /\ UNCHANGED <<parseVars, varintVars, setupVars>>

StatusNext == ReadBattery \/ ReadRunning

StatusSpec == StatusInit /\ [][StatusNext]_vars

\* The value a key holds in the current snapshot (None when absent or when
\* there is no snapshot).
Dp(key) ==
    IF coordinator_data.is_none THEN NoneValue
    ELSE GetOrNone(coordinator_data, key)

\* The current snapshot with DP 2 replaced by d2 (removed for Absent).
WithDps2(d2) ==
    LET dps == coordinator_data.dps
        keys == IF d2 = Absent THEN DOMAIN dps \ {"2"} ELSE DOMAIN dps \cup {"2"} IN
        Dict([k \in keys |-> IF k = "2" THEN d2 ELSE dps[k]])

HasKey(key) == ~coordinator_data.is_none /\ key \in DOMAIN coordinator_data.dps

\* What the coarse flag alone gives.
FlagStatus ==
    IF IsTrue(Dp("2")) THEN "Running"
    ELSE IF IsFalse(Dp("2")) THEN "Stopped" ELSE "Unknown"

\* C13 as stated: whenever the key 153 is present, DP 2 has no influence.
C13_AsStated ==
    (running_value.read /\ HasKey("153"))
        => \A d2 \in Dps2Values :
               running_native_value(WithDps2(d2)).ret = running_value.ret

\* C13: DP 2 decides the status (true "Running", false "Stopped") only if
\* DP 153 is absent or empty; whenever DP 153 holds a non-empty value the
\* status does not depend on DP 2.
C13_FlagOnlyWithout153 ==
    running_value.read /\ ~DataFalsy(coordinator_data)
        => IF Truthy(Dp("153"))
           THEN \A d2 \in Dps2Values :
                    running_native_value(WithDps2(d2)).ret = running_value.ret
           ELSE running_value.ret = FlagStatus

\* The status was read from a snapshot whose DP 153 classifies as charging
\* while DP 2 says running.
C13_Witness ==
    /\ running_value.read
    /\ HasKey("153") /\ Truthy(Dp("153"))
    /\ IsTrue(Dp("2"))
    /\ running_value.ret = "Charging"

\* The description the current DP 153 stands for.
StatedDescription ==
    LET substatus == decode_dps153_to_state(Dp("153")).substatus IN
        IF substatus \in DOMAIN SUBSTATUS_DESCRIPTIONS
        THEN SUBSTATUS_DESCRIPTIONS[substatus] ELSE "Unknown"

\* C14: the running status is always a text, never None: the description of
\* the classified substatus for a non-empty DP 153 ("Unknown" without a
\* description entry), "Unknown" for a missing or empty snapshot and when
\* DP 153 is unavailable and DP 2 is neither true nor false.
C14_AlwaysText ==
    running_value.read
        => /\ ~running_value.is_none
           /\ running_value.ret \in STRING
           /\ running_value.ret # ""
           /\ DataFalsy(coordinator_data) => (running_value.ret = "Unknown")
           /\ (~DataFalsy(coordinator_data) /\ Truthy(Dp("153")))
                  => running_value.ret = StatedDescription
           /\ (~Truthy(Dp("153")) /\ ~IsTrue(Dp("2")) /\ ~IsFalse(Dp("2")))
                  => running_value.ret = "Unknown"

\* The status was read from a snapshot whose non-empty DP 153 matches no
\* table entry, with a DP 2 that would have said "Running".
C14_Witness ==
    /\ running_value.read
    /\ Truthy(Dp("153"))
    /\ decode_dps153_to_state(Dp("153")).substatus \notin DOMAIN SUBSTATUS_DESCRIPTIONS
    /\ IsTrue(Dp("2"))
    /\ running_value.ret = "Unknown"

\* A DP value that is an integer in 0..100.
IsPercentInteger(v) == v.type = "int" /\ 0 <= v.n /\ v.n <= 100

\* A DP value that int() turns into a number in 0..100: such an integer, a
\* boolean, or the decimal text of such a number.
ConvertsToPercent(v) ==
    \/ IsPercentInteger(v)
    \/ v.type = "bool"
    \/ /\ v.type = "str"
       /\ \E n \in 0..100 : v = DecimalText(n) \/ v.chars = <<PLUS>> \o DecimalText(n).chars

\* The number such a value stands for.
PercentOf(v) ==
    IF v.type = "str"
    THEN CHOOSE n \in 0..100 : v = DecimalText(n) \/ v.chars = <<PLUS>> \o DecimalText(n).chars
    ELSE v.n

\* C15 as stated: DP 8, then DP 163, each only when it is an integer in 0..100.
C15_AsStated ==
    battery_value.read
        => battery_value.ret =
               IF DataFalsy(coordinator_data) THEN None
               ELSE IF IsPercentInteger(Dp("8")) THEN Dp("8").n
               ELSE IF IsPercentInteger(Dp("163")) THEN Dp("163").n
               ELSE None

\* C15: the battery value is None or an integer in 0..100; DP 8 is taken when
\* it converts to a number in 0..100, whatever DP 163 holds; otherwise DP 163
\* when it converts to such a number; otherwise, and for a missing or empty
\* snapshot, None.
C15_BatteryRange ==
    battery_value.read
        => /\ ~battery_value.raised
           /\ battery_value.ret = None \/ battery_value.ret \in 0..100
           /\ battery_value.ret =
                  IF DataFalsy(coordinator_data) THEN None
                  ELSE IF ConvertsToPercent(Dp("8")) THEN PercentOf(Dp("8"))
                  ELSE IF ConvertsToPercent(Dp("163")) THEN PercentOf(Dp("163"))
                  ELSE None

\* The battery was read from a snapshot whose DP 8 is out of range and whose
\* DP 163 is in range.
C15_Witness ==
    /\ battery_value.read
    /\ Dp("8") = IntValue(101)
    /\ Dp("163") = IntValue(40)
    /\ battery_value.ret = 40

-----------------------------------------------------------------------------
(* Integration setup: async_setup_entry of the integration, its two device *)
(* loops, and async_setup_entry of the sensor platform.                    *)

\* hass_entity_id = f'{home["groupId"]}-{device["devId"]}'; the identifiers
\* hold no '-', so the text is as good as the pair.
hass_entity_id(home, device) == <<home.groupId, device.devId>>

\* dict[key] = value: a key already held keeps its place, a new one goes last.
DictPut(dict, key, value) ==
    IF \E i \in 1..Len(dict) : dict[i].key = key
    THEN [i \in 1..Len(dict) |->
             IF dict[i].key = key THEN [key |-> key, value |-> value] ELSE dict[i]]
    ELSE Append(dict, [key |-> key, value |-> value])

\* dict.pop(key, None): the dict without the key.
DictPop(dict, key) == [k \in DOMAIN dict \ {key} |-> dict[k]]

\* What coordinator.async_config_entry_first_refresh() raises on a failure.
RefreshErrors == {"ConfigEntryNotReady", "ConfigEntryAuthFailed"}

\* `except Exception` around the first refresh.
CaughtByExceptException == ExceptionSubclasses \cup RefreshErrors

\* Mutant: a device whose first refresh fails is warned about and left out.
setup_device_drops_failed(discovered_devices, home, device, device_ip, outcome) ==
    LET coordinator == [device_id |-> device.devId, host |-> device_ip] IN
        IF outcome = "ok"
        THEN [raised |-> "", warned |-> FALSE,
              discovered_devices |->
                  DictPut(discovered_devices, hass_entity_id(home, device), coordinator)]
        ELSE [raised |-> "", warned |-> TRUE, discovered_devices |-> discovered_devices]

\* The loop body for a selected device: the coordinator is created, its first
\* refresh is tried, and the device is registered with the coordinator.
setup_device(discovered_devices, home, device, device_ip, outcome) ==
    LET coordinator == [device_id |-> device.devId, host |-> device_ip] IN
        IF outcome = "ok" \/ outcome \in CaughtByExceptException
        THEN [raised |-> "", warned |-> outcome # "ok",
              discovered_devices |->
                  DictPut(discovered_devices, hass_entity_id(home, device), coordinator)]
        ELSE [raised |-> outcome, warned |-> FALSE,
              discovered_devices |-> discovered_devices]

\* Mutant: the cleaning-time sensor is created as well.
sensors_for_with_time(coordinator) ==
    << [sensor |-> "BatteryPercentageSensor", coordinator |-> coordinator],
       [sensor |-> "RunningStatusSensor", coordinator |-> coordinator],
       [sensor |-> "TotalCleaningCountSensor", coordinator |-> coordinator],
       [sensor |-> "TotalCleaningAreaSensor", coordinator |-> coordinator],
       [sensor |-> "TotalCleaningTimeSensor", coordinator |-> coordinator] >>

\* The entities the sensor platform appends for one registered device.
sensors_for(coordinator) ==
    << [sensor |-> "BatteryPercentageSensor", coordinator |-> coordinator],
       [sensor |-> "RunningStatusSensor", coordinator |-> coordinator],
       [sensor |-> "TotalCleaningCountSensor", coordinator |-> coordinator],
       [sensor |-> "TotalCleaningAreaSensor", coordinator |-> coordinator] >>

PLATFORMS == {"vacuum", "sensor"}

-----------------------------------------------------------------------------
(* SetupSpec: one setup of a config entry. *)

\* Most devices the cloud lists over all homes.
MaxDevices == 3

DeviceIds == {"dev1", "dev2"}
Homes == {"home1", "home2"}

HomeRank(h) == IF h = "home1" THEN 1 ELSE 2

\* The devices of the account as the loops meet them: home by home, each
\* home's devices in turn; one device may be shared by both homes.
CloudLists ==
    UNION { { l \in [1..n -> [home : [groupId : Homes], device : [devId : DeviceIds]]] :
                /\ \A i, j \in 1..n : i < j =>
                       /\ HomeRank(l[i].home.groupId) <= HomeRank(l[j].home.groupId)
                       /\ l[i] # l[j] } :
            n \in 0..MaxDevices }

ManualAddress(d) == <<"manual", d>>
LanAddress(d) == <<"lan", d>>

ManualConfigs ==
    { [d \in ds |-> [ip |-> ManualAddress(d)]] : ds \in SUBSET DeviceIds }

DiscoverResults ==
    { [d \in ds |-> [ip |-> LanAddress(d)]] : ds \in SUBSET DeviceIds }

SetupInit ==
    /\ SensorsInit /\ ParseIdle /\ VarintIdle /\ StatusIdle
    /\ cloud_devices \in CloudLists
    /\ manual_devices \in ManualConfigs
    /\ refresh_raises \in [DeviceIds -> {"ok"} \cup RefreshErrors]
    /\ forward_api \in {"new", "old"}
    /\ discover_result = <<>>
    /\ detected_devices = <<>>
    /\ todo = <<>>
    /\ registered = <<>>
    /\ forwarded = {}
    /\ platform_todo = <<>>
    /\ entities = <<>>
    /\ added = <<>>
    /\ setup_log = {}
    /\ setup_pc = "start"
    /\ setup_result = "pending"

\* `except Exception: logger.exception(...); raise`
SetupRaises(exc) ==
    /\ setup_log' = setup_log \cup {[level |-> "exception", event |-> exc, device |-> ""]}
    /\ setup_result' = "raised"
    /\ setup_pc' = "done"

\* get_user_info, list_homes and list_devices: the cloud answers or fails.
StartSetup ==
    /\ setup_pc = "start"
    /\ \E cloud_ok \in BOOLEAN :
           IF cloud_ok
           THEN /\ todo' = cloud_devices
                /\ setup_pc' = IF DOMAIN manual_devices # {} THEN "manual" ELSE "discover"
                /\ UNCHANGED <<setup_log, setup_result>>
           ELSE /\ SetupRaises("CloudError")
                /\ UNCHANGED todo
    /\ UNCHANGED <<cloud_devices, manual_devices, discover_result, detected_devices,
                   refresh_raises, forward_api, registered, forwarded,
                   platform_todo, entities, added>>
    /\ UNCHANGED <<sensorVars, parseVars, varintVars, statusVars>>

\* detected_devices = await discover()
Discover ==
    /\ setup_pc = "discover"
    /\ \E found \in DiscoverResults :
           /\ discover_result' = found
           /\ detected_devices' = found
    /\ setup_pc' = "discovered"
    /\ UNCHANGED <<cloud_devices, manual_devices, refresh_raises, forward_api, todo,
                   registered, forwarded, platform_todo, entities, added,
                   setup_log, setup_result>>
    /\ UNCHANGED <<sensorVars, parseVars, varintVars, statusVars>>

\* What a loop body leaves behind after setup_device.
AfterSetupDevice(r, device_id) ==
    /\ registered' = r.discovered_devices
    /\ todo' = Tail(todo)
    /\ IF r.raised # ""
       THEN SetupRaises(r.raised)
       ELSE /\ setup_log' =
                   IF r.warned
                   THEN setup_log \cup {[level |-> "warning", event |-> "refresh",
                                         device |-> device_id]}
                   ELSE setup_log
            /\ UNCHANGED <<setup_pc, setup_result>>

\* One turn of the loops of _setup_manual_devices.
ManualDevice ==
    /\ setup_pc = "manual"
    /\ todo # <<>>
    /\ LET home == Head(todo).home
           device == Head(todo).device
           device_id == device.devId IN
           IF device_id \in DOMAIN manual_devices
           THEN AfterSetupDevice(
                    setup_device(registered, home, device,
                                 manual_devices[device_id].ip,
                                 refresh_raises[device_id]),
                    device_id)
           ELSE /\ todo' = Tail(todo)
                /\ UNCHANGED <<registered, setup_log, setup_pc, setup_result>>
    /\ UNCHANGED <<cloud_devices, manual_devices, discover_result, detected_devices,
                   refresh_raises, forward_api, forwarded, platform_todo,
                   entities, added>>
    /\ UNCHANGED <<sensorVars, parseVars, varintVars, statusVars>>

\* One turn of the loops of _setup_discovered_devices.
DiscoveredDevice ==
    /\ setup_pc = "discovered"
    /\ todo # <<>>
    /\ LET home == Head(todo).home
           device == Head(todo).device
           device_id == device.devId IN
           /\ detected_devices' = DictPop(detected_devices, device_id)
           /\ IF device_id \in DOMAIN detected_devices
              THEN AfterSetupDevice(
                       setup_device(registered, home, device,
                                    detected_devices[device_id].ip,
                                    refresh_raises[device_id]),
                       device_id)
              ELSE /\ todo' = Tail(todo)
                   /\ setup_log' = setup_log \cup
                          {[level |-> "warning", event |-> "not_found",
                            device |-> device_id]}
                   /\ UNCHANGED <<registered, setup_pc, setup_result>>
    /\ UNCHANGED <<cloud_devices, manual_devices, discover_result,
                   refresh_raises, forward_api, forwarded, platform_todo,
                   entities, added>>
    /\ UNCHANGED <<sensorVars, parseVars, varintVars, statusVars>>

\* The loops are over: the platforms are forwarded, awaited with
\* async_forward_entry_setups, or, where that method is missing, started as
\* tasks before True is returned.
ForwardPlatforms ==
    /\ setup_pc \in {"manual", "discovered"}
    /\ todo = <<>>
    /\ forwarded' = PLATFORMS
    /\ platform_todo' = registered
    /\ setup_result' = IF forward_api = "old" THEN "true" ELSE setup_result
    /\ setup_pc' = "platform"
    /\ UNCHANGED <<cloud_devices, manual_devices, discover_result, detected_devices,
                   refresh_raises, forward_api, todo, registered, entities, added,
                   setup_log>>
    /\ UNCHANGED <<sensorVars, parseVars, varintVars, statusVars>>

\* One turn of the loop of the sensor platform's async_setup_entry.
SensorSetupDevice ==
    /\ setup_pc = "platform"
    /\ platform_todo # <<>>
    /\ entities' = entities \o sensors_for(Head(platform_todo).value)
    /\ platform_todo' = Tail(platform_todo)
    /\ UNCHANGED <<cloud_devices, manual_devices, discover_result, detected_devices,
                   refresh_raises, forward_api, todo, registered, forwarded, added,
                   setup_log, setup_pc, setup_result>>
    /\ UNCHANGED <<sensorVars, parseVars, varintVars, statusVars>>

\* `if devices: return async_add_devices(devices)`, and the setup of the entry
\* has returned True.
SensorSetupFinish ==
    /\ setup_pc = "platform"
    /\ platform_todo = <<>>
    /\ added' = IF entities # <<>> THEN Append(added, entities) ELSE added
    /\ setup_result' = "true"
    /\ setup_pc' = "done"
    /\ UNCHANGED <<cloud_devices, manual_devices, discover_result, detected_devices,
                   refresh_raises, forward_api, todo, registered, forwarded,
                   platform_todo, entities, setup_log>>
    /\ UNCHANGED <<sensorVars, parseVars, varintVars, statusVars>>

SetupNext ==
    \/ StartSetup
    \/ Discover
    \/ ManualDevice
    \/ DiscoveredDevice
    \/ ForwardPlatforms
    \/ SensorSetupDevice
    \/ SensorSetupFinish

SetupSpec == SetupInit /\ [][SetupNext]_vars

-----------------------------------------------------------------------------
(* Properties of the setup (checked under SetupSpec). *)

\* The cloud answered: the setup did not stop on a cloud error.
CloudAnswered ==
    [level |-> "exception", event |-> "CloudError", device |-> ""] \notin setup_log

SetupOver == setup_pc = "done" /\ CloudAnswered

\* The sensor classes of the entities handed over for the i-th registered device.
SensorsOfDevice(i) ==
    [k \in 1..4 |-> added[1][4 * (i - 1) + k]]

\* C12: for every registered device the sensor platform hands over exactly a
\* battery, a running-status, a total-count and a total-area sensor on that
\* device's coordinator, 4*N entities for N devices and never a cleaning-time
\* sensor; with no registered device it hands over nothing.
C12_FourSensorsPerDevice ==
    /\ \A i \in 1..Len(entities) : entities[i].sensor # "TotalCleaningTimeSensor"
    /\ SetupOver /\ setup_result = "true"
           => IF registered = <<>>
              THEN added = <<>>
              ELSE /\ Len(added) = 1
                   /\ Len(added[1]) = 4 * Len(registered)
                   /\ \A i \in 1..Len(registered) :
                          SensorsOfDevice(i) = sensors_for(registered[i].value)
                   /\ \A i \in 1..Len(added[1]) :
                          added[1][i].sensor \in
                              {"BatteryPercentageSensor", "RunningStatusSensor",
                               "TotalCleaningCountSensor", "TotalCleaningAreaSensor"}

\* Two devices were registered and the platform handed over eight sensors.
C12_Witness ==
    /\ SetupOver
    /\ Len(registered) = 2
    /\ Len(added) = 1 /\ Len(added[1]) = 8
    /\ added[1][5].sensor = "BatteryPercentageSensor"
    /\ added[1][5].coordinator # added[1][1].coordinator

\* The devices the cloud lists.
ListedDevices == {cloud_devices[i].device.devId : i \in 1..Len(cloud_devices)}

\* The devices selected for setup: those of the manual configuration when
\* there is one, else those found on the local network.
SelectedDevices ==
    IF DOMAIN manual_devices # {}
    THEN ListedDevices \cap DOMAIN manual_devices
    ELSE ListedDevices \cap DOMAIN discover_result

\* The address the coordinator of a selected device is given.
ConfiguredAddress(d) ==
    IF DOMAIN manual_devices # {} THEN manual_devices[d].ip ELSE discover_result[d].ip

RegisteredDevices == {registered[i].value.device_id : i \in 1..Len(registered)}

\* C17: when the cloud answered, every selected device is registered with
\* its coordinator, also when its first refresh raised; the failure is only
\* logged, the platforms are forwarded and the setup returns True; a device
\* that was not selected is never registered.
C17_RefreshFailureAbsorbed ==
    /\ RegisteredDevices \subseteq SelectedDevices
    /\ \A i \in 1..Len(registered) :
           /\ registered[i].key[2] = registered[i].value.device_id
           /\ registered[i].value.host = ConfiguredAddress(registered[i].value.device_id)
    /\ SetupOver
           => /\ setup_result = "true"
              /\ forwarded = PLATFORMS
              /\ RegisteredDevices = SelectedDevices
              /\ \A d \in SelectedDevices :
                     refresh_raises[d] # "ok"
                         => [level |-> "warning", event |-> "refresh", device |-> d]
                                \in setup_log

\* The setup returned True after the first refresh of the first selected
\* device raised; that device and one processed after it are registered, and
\* a listed device that was not selected is not.
C17_Witness ==
    /\ SetupOver /\ setup_result = "true"
    /\ Len(registered) = 2
    /\ refresh_raises[registered[1].value.device_id] # "ok"
    /\ ListedDevices \ SelectedDevices # {}
    /\ ListedDevices \ SelectedDevices = ListedDevices \ RegisteredDevices

====
